---------------------------- MODULE Spec2Model ----------------------------
(***************************************************************************)
(* Model of the payroll service of index.js: POST /upload (CSV ingestion   *)
(* into the timekeeping tables over one shared pg connection) and          *)
(* GET /report (pay-period aggregation).                                   *)
(*                                                                         *)
(* Text is modelled as a sequence of characters (one-character strings).   *)
(* The literal prefix "time-report-" of a file name is written as a single *)
(* element of such a sequence; no operation of the program looks inside.   *)
(***************************************************************************)
EXTENDS Integers, Sequences, FiniteSets, TLC

VARIABLES
    req,        \* per request: the position and locals of its upload handler
    nreq,       \* number of upload requests received so far
    queue,      \* the pg client's FIFO of queries not yet executed
    txn,        \* transaction status of the connection's session
    committed,  \* durable rows: [reports, entries]
    pending,    \* rows written by the open transaction, not yet durable
    connected,  \* the connection is alive
    faultsLeft, \* number of environment faults the behaviour may still suffer
    inDate,     \* input of the pay-period resolver
    outPeriod,  \* its output
    inRows,     \* rows handed to the aggregator by the store
    outReport,   \* the aggregator's output
    rep         \* per report request: the position and response of its handler

vars == <<req, nreq, queue, txn, committed, pending, connected, faultsLeft,
          inDate, outPeriod, inRows, outReport, rep>>

-----------------------------------------------------------------------------
(* Text helpers                                                            *)

Digits == <<"0", "1", "2", "3", "4", "5", "6", "7", "8", "9">>

IsDigit(c) == \E i \in 1..10 : Digits[i] = c

DigitVal(c) == (CHOOSE i \in 1..10 : Digits[i] = c) - 1

AllDigits(s) == Len(s) > 0 /\ \A i \in 1..Len(s) : IsDigit(s[i])

\* value of a non-empty sequence of digits
RECURSIVE NatVal(_)
NatVal(s) == IF Len(s) = 0 THEN 0
             ELSE 10 * NatVal(SubSeq(s, 1, Len(s) - 1)) + DigitVal(s[Len(s)])

\* Number.prototype.toString of a natural number
RECURSIVE NatStr(_)
NatStr(n) == IF n < 10 THEN <<Digits[n + 1]>>
             ELSE NatStr(n \div 10) \o <<Digits[(n % 10) + 1]>>

\* value of an undefined property
Undef == <<"undefined">>

\* String.prototype.padStart(n, '0')
RECURSIVE PadStart(_, _)
PadStart(s, n) == IF Len(s) >= n THEN s ELSE PadStart(<<"0">> \o s, n)

\* String.prototype.trim (the only white space of the model is " ")
RECURSIVE TrimStart(_)
TrimStart(s) == IF Len(s) > 0 /\ s[1] = " " THEN TrimStart(Tail(s)) ELSE s

RECURSIVE TrimEnd(_)
TrimEnd(s) == IF Len(s) > 0 /\ s[Len(s)] = " "
              THEN TrimEnd(SubSeq(s, 1, Len(s) - 1)) ELSE s

Trim(s) == TrimEnd(TrimStart(s))

\* String.prototype.split(sep) for a one-character separator
RECURSIVE Split(_, _)
Split(s, sep) ==
    IF \A i \in 1..Len(s) : s[i] # sep THEN <<s>>
    ELSE LET k == CHOOSE i \in 1..Len(s) :
                      s[i] = sep /\ \A j \in 1..(i - 1) : s[j] # sep
         IN  <<SubSeq(s, 1, k - 1)>> \o Split(SubSeq(s, k + 1, Len(s)), sep)

\* String.prototype.toLowerCase on the letters file names of the model use
LowerChar(c) == CASE c = "C" -> "c" [] c = "S" -> "s" [] c = "V" -> "v"
                  [] c = "T" -> "t" [] c = "X" -> "x" [] OTHER -> c

ToLowerCase(s) == [i \in 1..Len(s) |-> LowerChar(s[i])]

IsSuffix(t, s) == Len(t) <= Len(s) /\ SubSeq(s, Len(s) - Len(t) + 1, Len(s)) = t

dotCsv == <<".", "c", "s", "v">>

\* an extension found anywhere in the name
ExtName_anywhere(name) ==
    IF \E i \in 1..(Len(name) - 3) :
          <<name[i], name[i + 1], name[i + 2], name[i + 3]>> = <<".", "c", "s", "v">>
    THEN <<".", "c", "s", "v">>
    ELSE <<>>

\* path.extname: from the last "." to the end; empty when there is none or
\* when the name starts with its only "."
ExtName(name) ==
    IF \A i \in 1..Len(name) : name[i] # "." THEN <<>>
    ELSE LET k == CHOOSE i \in 1..Len(name) :
                      name[i] = "." /\ \A j \in (i + 1)..Len(name) : name[j] # "."
         IN  IF k = 1 THEN <<>> ELSE SubSeq(name, k, Len(name))

\* path.basename(name, ext): the name without a trailing ext, compared
\* exactly (names of the model carry no directory part)
BaseName(name, ext) ==
    IF IsSuffix(ext, name) /\ Len(name) > Len(ext)
    THEN SubSeq(name, 1, Len(name) - Len(ext)) ELSE name

\* fileName.match(/^time-report-(\d+)$/): the captured digits, or <<>> (null)
MatchReportName(fileName) ==
    IF /\ Len(fileName) >= 2
       /\ fileName[1] = "time-report-"
       /\ AllDigits(Tail(fileName))
    THEN Tail(fileName) ELSE <<>>

-----------------------------------------------------------------------------
(* processCSVFile: the parsed lines of the file are a sequence of lines,   *)
(* each a sequence of cells; csv() takes the first line as the header.     *)

requiredHeaders == <<"date", "hours worked", "employee id", "job group">>

\* Array.prototype.filter, the kept elements given by their indices
RECURSIVE FilterIdx(_, _, _)
FilterIdx(s, keep, i) ==
    IF i > Len(s) THEN <<>>
    ELSE (IF i \in keep THEN <<s[i]>> ELSE <<>>) \o FilterIdx(s, keep, i + 1)

Includes(s, x) == \E i \in 1..Len(s) : s[i] = x

\* header names csv() gives to cells beyond the header's width
ExtraKeys == <<"_0", "_1", "_2", "_3", "_4", "_5">>

KeyAt(headers, i) == IF i <= Len(headers) THEN headers[i] ELSE ExtraKeys[i]

\* the object csv() builds for one data line: cell i under header i; a
\* repeated header keeps its last cell; a header with no cell is absent
RowObject(headers, cells) ==
    [k \in {KeyAt(headers, i) : i \in 1..Len(cells)} |->
        cells[CHOOSE i \in 1..Len(cells) :
                  /\ KeyAt(headers, i) = k
                  /\ \A j \in (i + 1)..Len(cells) : KeyAt(headers, j) # k]]

Get(row, k) == IF k \in DOMAIN row THEN row[k] ELSE Undef

\* the 'data' handler's test
IsEmptyRow(row) == \A k \in DOMAIN row : row[k] = Undef \/ Trim(row[k]) = <<>>

\* the 'headers' handler's list
MissingHeaders(headers) ==
    FilterIdx(requiredHeaders,
              {i \in 1..Len(requiredHeaders) : ~Includes(headers, requiredHeaders[i])}, 1)

\* the promise's outcome: resolved with the surviving rows, or rejected
processCSVFile(lines) ==
    IF Len(lines) = 0
    THEN [ok |-> FALSE, err |-> "HeadersNotFound", missing |-> <<>>, results |-> <<>>]
    ELSE LET headers == Head(lines)
             missing == MissingHeaders(headers)
             rows    == [i \in 1..(Len(lines) - 1) |-> RowObject(headers, lines[i + 1])]
         IN  IF Len(missing) > 0
             THEN [ok |-> FALSE, err |-> "MissingHeaders", missing |-> missing,
                   results |-> <<>>]
             ELSE [ok |-> TRUE, err |-> "none", missing |-> <<>>,
                   results |-> FilterIdx(rows, {i \in 1..Len(rows) : ~IsEmptyRow(rows[i])}, 1)]

-----------------------------------------------------------------------------
(* The callback of results.map: validation and date reformatting of a row  *)

Falsy(v) == v = Undef \/ v = <<>>

formattedDate(date) ==
    LET dateParts == Split(date, "/")
        day   == dateParts[1]
        month == dateParts[2]
        year  == dateParts[3]
    IN  year \o <<"-">> \o PadStart(month, 2) \o <<"-">> \o PadStart(day, 2)

\* what the callback does with one row: throws, or issues an INSERT
RowOutcome(row) ==
    LET date        == Get(row, "date")
        hours_worked == Get(row, "hours worked")
        employee_id == Get(row, "employee id")
        job_group   == Get(row, "job group")
    IN  IF Falsy(date) \/ hours_worked = Undef \/ employee_id = Undef \/ Falsy(job_group)
        THEN [throws |-> "MalformedRow"]
        ELSE IF Len(Split(date, "/")) # 3
        THEN [throws |-> "InvalidDateFormat"]
        ELSE [throws |-> "none",
              params |-> [date |-> formattedDate(date), hours_worked |-> hours_worked,
                          employee_id |-> employee_id, job_group |-> job_group]]

-----------------------------------------------------------------------------
(* The store's column types (schema.sql) and their input conversions       *)

IsLeap(y) == (y % 4 = 0 /\ y % 100 # 0) \/ y % 400 = 0

DaysInMonth(y, m) ==
    IF m = 2 THEN (IF IsLeap(y) THEN 29 ELSE 28)
    ELSE IF m \in {4, 6, 9, 11} THEN 30 ELSE 31

Bad == [ok |-> FALSE]

CivilDate(y, m, d) ==
    IF y >= 1 /\ m \in 1..12 /\ d >= 1 /\ d <= DaysInMonth(y, m)
    THEN [ok |-> TRUE, v |-> [y |-> y, m |-> m, d |-> d]] ELSE Bad

\* a two-digit year of a date literal
Year2(n) == IF n < 70 THEN 2000 + n ELSE 1900 + n

\* DATE input of three '-'-separated numbers (DateStyle ISO, MDY): year
\* first when the first field has three digits or more, else month, day, year
DateIn(s) ==
    LET p == Split(Trim(s), "-") IN
    IF s = Undef \/ Len(p) # 3 THEN Bad
    ELSE IF ~(AllDigits(p[1]) /\ AllDigits(p[2]) /\ AllDigits(p[3])) THEN Bad
    ELSE IF Len(p[1]) >= 3
    THEN (IF Len(p[2]) <= 2 /\ Len(p[3]) <= 2
          THEN CivilDate(NatVal(p[1]), NatVal(p[2]), NatVal(p[3])) ELSE Bad)
    ELSE IF Len(p[2]) <= 2
    THEN CivilDate(IF Len(p[3]) <= 2 THEN Year2(NatVal(p[3])) ELSE NatVal(p[3]),
                   NatVal(p[1]), NatVal(p[2]))
    ELSE Bad

DecimalPrecision == 5
DecimalScale == 2

RECURSIVE Pow10(_)
Pow10(n) == IF n = 0 THEN 1 ELSE 10 * Pow10(n - 1)

\* DECIMAL(5,2) input, as a number of hundredths: rounded half away from
\* zero to two places, rejected when the integer part needs over 3 digits
NumericIn(s) ==
    LET t    == Trim(s)
        neg  == Len(t) > 0 /\ t[1] = "-"
        body == IF neg THEN Tail(t) ELSE t
        p    == Split(body, ".")
        ip   == p[1]
        fp   == IF Len(p) = 2 THEN p[2] ELSE <<>>
        f3   == SubSeq(fp \o <<"0", "0", "0">>, 1, DecimalScale + 1)
        mag  == NatVal(ip) * Pow10(DecimalScale)
                  + NatVal(SubSeq(f3, 1, DecimalScale))
                  + (IF DigitVal(f3[DecimalScale + 1]) >= 5 THEN 1 ELSE 0)
    IN  IF s = Undef \/ Len(p) > 2 THEN Bad
        ELSE IF ~((ip = <<>> \/ AllDigits(ip)) /\ (fp = <<>> \/ AllDigits(fp))) THEN Bad
        ELSE IF Len(ip) + Len(fp) = 0 THEN Bad
        ELSE IF mag >= Pow10(DecimalPrecision) THEN Bad
        ELSE [ok |-> TRUE, v |-> IF neg THEN 0 - mag ELSE mag]

MaxInteger == 2147483647

RECURSIVE StripZeros(_)
StripZeros(s) == IF Len(s) > 1 /\ s[1] = "0" THEN StripZeros(Tail(s)) ELSE s

\* whether the digits d, without leading zeros, are at most MaxInteger
\* (at most MaxInteger + 1 when extra = 1), without computing beyond it
FitsInteger(d, extra) ==
    \/ Len(d) < 10
    \/ /\ Len(d) = 10
       /\ LET hi == NatVal(SubSeq(d, 1, 9))
              lo == DigitVal(d[10])
          IN  \/ hi < MaxInteger \div 10
              \/ hi = MaxInteger \div 10 /\ lo <= (MaxInteger % 10) + extra

\* INTEGER input
IntegerIn(s) ==
    LET t    == Trim(s)
        neg  == Len(t) > 0 /\ t[1] = "-"
        body == IF neg THEN Tail(t) ELSE t
        d    == StripZeros(body)
    IN  IF s = Undef \/ ~AllDigits(body) THEN Bad
        ELSE IF ~FitsInteger(d, IF neg THEN 1 ELSE 0) THEN Bad
        ELSE IF neg /\ Len(d) = 10 /\ NatVal(SubSeq(d, 1, 9)) = MaxInteger \div 10
                    /\ DigitVal(d[10]) = (MaxInteger % 10) + 1
        THEN [ok |-> TRUE, v |-> (0 - MaxInteger) - 1]
        ELSE [ok |-> TRUE, v |-> IF neg THEN 0 - NatVal(d) ELSE NatVal(d)]

\* VARCHAR(n) input: spaces beyond n characters are cut, anything else
\* beyond n is an error
VarCharIn(s, n) ==
    IF s = Undef THEN Bad
    ELSE IF Len(s) <= n THEN [ok |-> TRUE, v |-> s]
    ELSE IF \A i \in (n + 1)..Len(s) : s[i] = " "
    THEN [ok |-> TRUE, v |-> SubSeq(s, 1, n)] ELSE Bad

JobGroupLen == 1
ReportIdLen == 255

-----------------------------------------------------------------------------
(* JavaScript Date, in local civil time: a Date is [y, m, d] with m in     *)
(* 1..12; the constructor works on day numbers (MakeDay / MakeDate).       *)

DaysFromCivil(y, m, d) ==
    LET yy  == IF m <= 2 THEN y - 1 ELSE y
        era == yy \div 400
        yoe == yy - era * 400
        mp  == IF m > 2 THEN m - 3 ELSE m + 9
        doy == (153 * mp + 2) \div 5 + d - 1
        doe == yoe * 365 + yoe \div 4 - yoe \div 100 + doy
    IN  era * 146097 + doe

CivilFromDays(z) ==
    LET era == z \div 146097
        doe == z - era * 146097
        yoe == (doe - doe \div 1460 + doe \div 36524 - doe \div 146096) \div 365
        doy == doe - (365 * yoe + yoe \div 4 - yoe \div 100)
        mp  == (5 * doy + 2) \div 153
        d   == doy - (153 * mp + 2) \div 5 + 1
        m   == IF mp < 10 THEN mp + 3 ELSE mp - 9
    IN  [y |-> yoe + era * 400 + (IF m <= 2 THEN 1 ELSE 0), m |-> m, d |-> d]

\* new Date(year, monthIndex, day): years 0..99 mean 1900..1999, a month
\* index of 12 and a day of 0 carry into the neighbouring month
NewDate(year, monthIndex, day) ==
    LET yr == IF year >= 0 /\ year <= 99 THEN 1900 + year ELSE year
        ym == yr + monthIndex \div 12
        mn == monthIndex % 12
    IN  CivilFromDays(DaysFromCivil(ym, mn + 1, 1) + day - 1)

getFullYear(date) == date.y
getMonth(date) == date.m - 1
getDate(date) == date.d

getPayPeriod_lastDayOff(date) ==
    LET year  == getFullYear(date)
        month == getMonth(date) + 1
        ym    == NatStr(year) \o <<"-">> \o PadStart(NatStr(month), 2) \o <<"-">>
    IN  IF getDate(date) <= 15
        THEN [startDate |-> ym \o <<"0", "1">>, endDate |-> ym \o <<"1", "5">>]
        ELSE LET lastDayOfMonth == getDate(NewDate(year, month - 1, 0))
             IN  [startDate |-> ym \o <<"1", "6">>,
                  endDate   |-> ym \o NatStr(lastDayOfMonth)]

getPayPeriod(date) ==
    LET year  == getFullYear(date)
        month == getMonth(date) + 1
        ym    == NatStr(year) \o <<"-">> \o PadStart(NatStr(month), 2) \o <<"-">>
    IN  IF getDate(date) <= 15
        THEN [startDate |-> ym \o <<"0", "1">>, endDate |-> ym \o <<"1", "5">>]
        ELSE LET lastDayOfMonth == getDate(NewDate(year, month, 0))
             IN  [startDate |-> ym \o <<"1", "6">>,
                  endDate   |-> ym \o NatStr(lastDayOfMonth)]

-----------------------------------------------------------------------------
(* GET /report: the aggregation of the rows the store returns.  A row is   *)
(* [date, hours_worked, employee_id, job_group] as pg delivers it: a Date, *)
(* the decimal as a number of hundredths, an integer, a string.  Amounts   *)
(* are JavaScript numbers: a number of cents, or NaN.                      *)

RateA == 30
RateB == 20

NaN == [nan |-> TRUE, c |-> 0]
Num(c) == [nan |-> FALSE, c |-> c]

\* jobGroupRates[jobGroup]: a rate, or undefined (which arithmetic turns into NaN)
jobGroupRates(jobGroup) ==
    IF jobGroup = <<"A">> THEN Num(RateA)
    ELSE IF jobGroup = <<"B">> THEN Num(RateB)
    ELSE NaN

Mul(a, b) == IF a.nan \/ b.nan THEN NaN ELSE Num(a.c * b.c)
Add(a, b) == IF a.nan \/ b.nan THEN NaN ELSE Num(a.c + b.c)

\* Number.prototype.toString of an integer
IntStr(n) == IF n < 0 THEN <<"-">> \o NatStr(0 - n) ELSE NatStr(n)

\* Number.prototype.toFixed(2) of an amount held in cents
toFixed2(a) ==
    IF a.nan THEN <<"N", "a", "N">>
    ELSE LET mag == IF a.c < 0 THEN 0 - a.c ELSE a.c
         IN  (IF a.c < 0 THEN <<"-">> ELSE <<>>)
               \o NatStr(mag \div 100) \o <<".">> \o PadStart(NatStr(mag % 100), 2)

PayKey(employeeId, payPeriod) ==
    IntStr(employeeId) \o <<"-">> \o payPeriod.startDate \o <<"-">> \o payPeriod.endDate

KeyIndex(data, key) ==
    IF \E i \in 1..Len(data) : data[i].key = key
    THEN CHOOSE i \in 1..Len(data) : data[i].key = key ELSE 0

AddPay_overwrite(data, row) ==
    LET payRate   == jobGroupRates(row.job_group)
        payPeriod == getPayPeriod(row.date)
        key       == PayKey(row.employee_id, payPeriod)
        pay       == Mul(Num(row.hours_worked), payRate)
        k         == KeyIndex(data, key)
    IN  IF k = 0
        THEN Append(data, [key |-> key, employeeId |-> row.employee_id,
                           payPeriod |-> payPeriod, amountPaid |-> Add(Num(0), pay)])
        ELSE [data EXCEPT ![k].amountPaid = pay]

\* the body of timekeepingData.forEach: employeePayData, an object whose
\* keys keep their insertion order, is the sequence of its entries
AddPay(data, row) ==
    LET payRate   == jobGroupRates(row.job_group)
        payPeriod == getPayPeriod(row.date)
        key       == PayKey(row.employee_id, payPeriod)
        pay       == Mul(Num(row.hours_worked), payRate)
        k         == KeyIndex(data, key)
    IN  IF k = 0
        THEN Append(data, [key |-> key, employeeId |-> row.employee_id,
                           payPeriod |-> payPeriod, amountPaid |-> Add(Num(0), pay)])
        ELSE [data EXCEPT ![k].amountPaid = Add(@, pay)]

RECURSIVE Accumulate(_, _)
Accumulate(data, rows) ==
    IF Len(rows) = 0 THEN data ELSE Accumulate(AddPay(data, Head(rows)), Tail(rows))

\* the "format report" loop
FormatLine(e) ==
    [employeeId |-> IntStr(e.employeeId), payPeriod |-> e.payPeriod,
     amountPaid |-> <<"$">> \o toFixed2(e.amountPaid)]

\* new Date(isoString) - new Date(isoString): a difference of day numbers
\* for YYYY-MM-DD strings, NaN when either string is not one
DateOfIso(s) ==
    LET p == Split(s, "-") IN
    IF Len(p) = 3 /\ Len(p[1]) = 4 /\ Len(p[2]) = 2 /\ Len(p[3]) = 2
       /\ AllDigits(p[1]) /\ AllDigits(p[2]) /\ AllDigits(p[3])
    THEN CivilDate(NatVal(p[1]), NatVal(p[2]), NatVal(p[3])) ELSE Bad

TimeOfIso(s) ==
    LET d == DateOfIso(s) IN
    IF d.ok THEN Num(DaysFromCivil(d.v.y, d.v.m, d.v.d)) ELSE NaN

\* string - string on employeeId strings
NumberOf(s) ==
    LET i == IntegerIn(s) IN IF i.ok THEN Num(i.v) ELSE NaN

Sub(a, b) == IF a.nan \/ b.nan THEN NaN ELSE Num(a.c - b.c)

\* a comparator with the operands of the employee difference exchanged
Compare_swapped(a, b) ==
    IF a.employeeId = b.employeeId
    THEN Sub(TimeOfIso(a.payPeriod.startDate), TimeOfIso(b.payPeriod.startDate))
    ELSE Sub(NumberOf(b.employeeId), NumberOf(a.employeeId))

\* the comparator of the report's sort
Compare(a, b) ==
    IF a.employeeId = b.employeeId
    THEN Sub(TimeOfIso(a.payPeriod.startDate), TimeOfIso(b.payPeriod.startDate))
    ELSE Sub(NumberOf(a.employeeId), NumberOf(b.employeeId))

\* Array.prototype.sort: stable; x goes after the last element it is not
\* smaller than (a NaN comparison counts as equal)
RECURSIVE InsertSorted(_, _)
InsertSorted(sorted, x) ==
    IF Len(sorted) = 0 THEN <<x>>
    ELSE LET last == sorted[Len(sorted)]
             c    == Compare(x, last)
         IN  IF ~c.nan /\ c.c < 0
             THEN Append(InsertSorted(SubSeq(sorted, 1, Len(sorted) - 1), x), last)
             ELSE Append(sorted, x)

RECURSIVE SortLines(_, _)
SortLines(sorted, rest) ==
    IF Len(rest) = 0 THEN sorted
    ELSE SortLines(InsertSorted(sorted, Head(rest)), Tail(rest))

\* a report whose lines stay in the order of their first rows
employeeReports_unsorted(timekeepingData) ==
    LET employeePayData == Accumulate(<<>>, timekeepingData)
    IN  [i \in 1..Len(employeePayData) |-> FormatLine(employeePayData[i])]

\* the report of a successful read
employeeReports(timekeepingData) ==
    LET employeePayData == Accumulate(<<>>, timekeepingData)
        lines == [i \in 1..Len(employeePayData) |-> FormatLine(employeePayData[i])]
    IN  SortLines(<<>>, lines)

-----------------------------------------------------------------------------
(* Bounds and inputs                                                       *)

MaxUploads == 2     \* upload requests per behaviour
MaxFaults == 1      \* environment faults per behaviour
MaxRows == 3        \* rows the store hands to one report

header == requiredHeaders

d0401 == <<"4", "/", "1", "/", "2", "0", "2", "3">>
d2001 == <<"2", "0", "/", "0", "1", "/", "2", "0", "2", "3">>
d1602 == <<"1", "6", "/", "0", "2", "/", "2", "0", "2", "4">>
d3102 == <<"3", "1", "/", "0", "2", "/", "2", "0", "2", "3">>
dIso  == <<"2", "0", "2", "3", "-", "0", "1", "-", "0", "4">>

rowA1  == <<d0401, <<"1", "0">>, <<"1">>, <<"A">>>>
rowB2  == <<d2001, <<"7", ".", "5">>, <<"2">>, <<"B">>>>
rowA3  == <<d1602, <<"3">>, <<"1">>, <<"A">>>>
rowBlank  == <<<<" ">>, <<>>, <<>>, <<" ", " ">>>>
rowShort  == <<d2001, <<"5">>, <<"2">>>>
rowIso    == <<dIso, <<"5">>, <<"2">>, <<"B">>>>
rowNoDay  == <<d3102, <<"5">>, <<"2">>, <<"B">>>>
rowFine   == <<d1602, <<"7", ".", "5", "5", "5">>, <<"2">>, <<"B">>>>

csvName(digits) == <<"time-report-">> \o digits \o dotCsv

NoFile == [present |-> FALSE, originalname |-> <<>>, lines |-> <<>>]

File(name, lines) == [present |-> TRUE, originalname |-> name, lines |-> lines]

\* the uploads a request may carry
Files ==
    { NoFile,
      File(<<"time-report-", "3", ".", "t", "x", "t">>, <<header, rowA1>>),
      File(<<"x", ".", "c", "s", "v">>, <<header, rowA1>>),
      File(csvName(<<"1">>), <<header, rowA1, rowBlank, rowB2>>),
      File(csvName(<<"1">>), <<header, rowA3>>),
      File(csvName(<<"2">>), <<<<"employee id", "job group", "date", "hours worked">>,
                                <<<<"1">>, <<"A">>, d1602, <<"3">>>>>>),
      File(csvName(<<"4">>), <<<<"date", "hours worked", "employee id">>, rowShort>>),
      File(csvName(<<"4">>), <<>>),
      File(csvName(<<"4">>), <<header, rowBlank>>),
      File(csvName(<<"5">>), <<header, rowA1, rowShort>>),
      File(csvName(<<"5">>), <<header, rowA1, rowIso>>),
      File(csvName(<<"6">>), <<header, rowA1, rowNoDay, rowB2>>),
      File(csvName(<<"7">>), <<header, rowFine>>) }

-----------------------------------------------------------------------------
(* The store: the two tables of schema.sql behind one connection           *)

NoRows == [reports |-> {}, entries |-> {}]

Visible == [reports |-> committed.reports \cup pending.reports,
            entries |-> committed.entries \cup pending.entries]

ReportsWithId(rows, id) == {r \in rows.reports : r.report_id = id}

\* a query of the client's queue: h is the request that issued it
Query(h, kind, arg) == [h |-> h, kind |-> kind, arg |-> arg]

\* a reports table without the UNIQUE constraint on report_id
ReportRow_notUnique(q) ==
    LET id == VarCharIn(q.arg.report_id, ReportIdLen)
        fn == VarCharIn(q.arg.filename, ReportIdLen)
    IN  IF id.ok /\ fn.ok
        THEN [ok |-> TRUE, v |-> [report_id |-> id.v, filename |-> fn.v, by |-> q.h]]
        ELSE Bad

\* the row an INSERT INTO timekeeping_reports writes, when the table takes it
ReportRow(q) ==
    LET id == VarCharIn(q.arg.report_id, ReportIdLen)
        fn == VarCharIn(q.arg.filename, ReportIdLen)
    IN  IF id.ok /\ fn.ok /\ ReportsWithId(Visible, id.v) = {}
        THEN [ok |-> TRUE, v |-> [report_id |-> id.v, filename |-> fn.v, by |-> q.h]]
        ELSE Bad

\* the row an INSERT INTO timekeeping_entries writes, when the table takes it
EntryRow(q) ==
    LET id  == VarCharIn(q.arg.report_id, ReportIdLen)
        dt  == DateIn(q.arg.date)
        hw  == NumericIn(q.arg.hours_worked)
        emp == IntegerIn(q.arg.employee_id)
        jg  == VarCharIn(q.arg.job_group, JobGroupLen)
    IN  IF id.ok /\ dt.ok /\ hw.ok /\ emp.ok /\ jg.ok /\ ReportsWithId(Visible, id.v) # {}
        THEN [ok |-> TRUE,
              v |-> [report_id |-> id.v, date |-> dt.v, hours_worked |-> hw.v,
                     employee_id |-> emp.v, job_group |-> jg.v,
                     by |-> q.h, row |-> q.arg.row]]
        ELSE Bad

\* a statement other than COMMIT and ROLLBACK is refused on a dead
\* connection and inside a failed transaction
Accepts == connected /\ txn # "aborted"

\* the session after a statement that failed
TxnAfterError == IF txn = "open" THEN "aborted" ELSE txn

-----------------------------------------------------------------------------
(* POST /upload: the handler runs from one await to the next in one step.  *)
(* A request's record holds the handler's position and locals, the         *)
(* response once sent (status 0: none yet), whether its staged file is     *)
(* still on disk (tmp), and a history of what it did: the error its catch  *)
(* block received (with the headers it names), the statements it issued,   *)
(* whether it parsed the file, and the requests that had been answered 201 *)
(* when it arrived (after).  Every response body of the handler is a fixed *)
(* text.                                                                   *)

Requests == 1..(MaxUploads + 1)

IdleReq == [pc |-> "idle", file |-> NoFile, reportId |-> <<>>, results |-> <<>>,
            insLeft |-> 0, status |-> 0, body |-> <<>>, tmp |-> FALSE,
            error |-> "none", missing |-> <<>>, issued |-> <<>>, parsed |-> FALSE,
            after |-> {}]

\* what a step of the handler leaves: its record, the queries it issued,
\* and whether it called unlinkAsync
Step(r, out, unlinked) == [r |-> r, out |-> out, unlinked |-> unlinked]

Issue(r, kinds) == [r EXCEPT !.issued = @ \o kinds]

\* res.status(..).json(..)
Respond(r, status, body) ==
    [r EXCEPT !.pc = "done", !.status = status, !.body = <<body>>]

\* the promise of the handler rejects: nothing more runs, nothing is sent
Reject(r, why) == [r EXCEPT !.pc = "rejected", !.error = why]

\* a catch block that answers without rolling back
Catch_noRollback(h, r, why) ==
    Step(Respond([r EXCEPT !.error = why], 500, "Internal server error"), <<>>, FALSE)

\* entry of the catch block: await client.query('ROLLBACK')
Catch(h, r, why) ==
    Step(Issue([r EXCEPT !.pc = "awaitRollback", !.error = why], <<"ROLLBACK">>),
         <<Query(h, "ROLLBACK", <<>>)>>, FALSE)

\* await unlinkAsync(file.path) inside the try block, then a response
UnlinkRespond(h, r, ul, status, body) ==
    IF ul THEN Step(Respond([r EXCEPT !.tmp = FALSE], status, body), <<>>, TRUE)
    ELSE [Catch(h, r, "UnlinkFailed") EXCEPT !.unlinked = TRUE]

\* from the start of the handler to its first await
OnRequest(h, f, ul) ==
    LET r == [IdleReq EXCEPT !.file = f, !.tmp = f.present,
                             !.after = {g \in Requests : req[g].status = 201}]
    IN
    IF ~f.present
    THEN Step(Respond(r, 400, "No file uploaded"), <<>>, FALSE)
    ELSE IF ToLowerCase(ExtName(f.originalname)) # dotCsv
    THEN (IF ul
          THEN Step(Respond([r EXCEPT !.tmp = FALSE], 400, "Only CSV files are allowed"),
                    <<>>, TRUE)
          ELSE Step(Reject(r, "UnlinkFailed"), <<>>, TRUE))
    ELSE LET fileName == BaseName(f.originalname, dotCsv)
             match    == MatchReportName(fileName)
         IN  IF match = <<>>
             THEN UnlinkRespond(h, r, ul, 400,
                      "Invalid file name format. Expected format: time-report-x.csv")
             ELSE Step(Issue([r EXCEPT !.pc = "awaitSelect", !.reportId = match],
                             <<"SELECT">>),
                       <<Query(h, "SELECT", [report_id |-> match])>>, FALSE)

\* a duplicate check that sends ROLLBACK as it answers 409
OnSelect_rollback(h, r, ok, rows, ul) ==
    IF ~ok THEN Catch(h, r, "StorageFailure")
    ELSE IF rows # {}
    THEN (IF ul
          THEN Step(Issue(Respond([r EXCEPT !.tmp = FALSE], 409, "Report ID already exists"),
                          <<"ROLLBACK">>),
                    <<Query(h, "ROLLBACK", <<>>)>>, TRUE)
          ELSE [Catch(h, r, "UnlinkFailed") EXCEPT !.unlinked = TRUE])
    ELSE Step([r EXCEPT !.pc = "parsing", !.parsed = TRUE], <<>>, FALSE)

\* after the duplicate check's SELECT
OnSelect(h, r, ok, rows, ul) ==
    IF ~ok THEN Catch(h, r, "StorageFailure")
    ELSE IF rows # {}
    THEN UnlinkRespond(h, r, ul, 409, "Report ID already exists")
    ELSE Step([r EXCEPT !.pc = "parsing", !.parsed = TRUE], <<>>, FALSE)

\* after processCSVFile
OnParsed(h, r, ul) ==
    LET p == processCSVFile(r.file.lines) IN
    IF ~p.ok THEN Catch(h, [r EXCEPT !.missing = p.missing], p.err)
    ELSE IF Len(p.results) = 0
    THEN UnlinkRespond(h, r, ul, 400, "Invalid CSV format: File Empty")
    ELSE Step(Issue([r EXCEPT !.pc = "awaitBegin", !.results = p.results], <<"BEGIN">>),
              <<Query(h, "BEGIN", <<>>)>>, FALSE)

\* after BEGIN
OnBegin(h, r, ok) ==
    IF ~ok THEN Catch(h, r, "StorageFailure")
    ELSE Step(Issue([r EXCEPT !.pc = "awaitReport"], <<"INSERT_REPORT">>),
              <<Query(h, "INSERT_REPORT",
                      [report_id |-> r.reportId, filename |-> r.file.originalname])>>,
              FALSE)

\* index of the first row on which the callback of results.map throws, or 0
FirstThrow(results) ==
    IF \E i \in 1..Len(results) : RowOutcome(results[i]).throws # "none"
    THEN CHOOSE i \in 1..Len(results) :
             /\ RowOutcome(results[i]).throws # "none"
             /\ \A j \in 1..(i - 1) : RowOutcome(results[j]).throws = "none"
    ELSE 0

EntryInsert(h, reportId, results, i) ==
    LET p == RowOutcome(results[i]).params IN
    Query(h, "INSERT_ENTRY",
          [report_id |-> reportId, date |-> p.date, hours_worked |-> p.hours_worked,
           employee_id |-> p.employee_id, job_group |-> p.job_group, row |-> i])

\* after the INSERT of the report row: results.map issues one INSERT per
\* row until a row throws, then Promise.all is awaited
OnReportInserted(h, r, ok) ==
    IF ~ok THEN Catch(h, r, "StorageFailure")
    ELSE LET k == FirstThrow(r.results)
             n == IF k = 0 THEN Len(r.results) ELSE k - 1
             inserts == [i \in 1..n |-> EntryInsert(h, r.reportId, r.results, i)]
             r1 == Issue(r, [i \in 1..n |-> "INSERT_ENTRY"])
         IN  IF k # 0
             THEN LET c == Catch(h, r1, RowOutcome(r.results[k]).throws)
                  IN  [c EXCEPT !.out = inserts \o @]
             ELSE Step([r1 EXCEPT !.pc = "awaitInserts", !.insLeft = n], inserts, FALSE)

\* a handler that commits as soon as one entry INSERT has succeeded
OnEntryInserted_first(h, r, ok) ==
    IF r.pc # "awaitInserts" THEN Step(r, <<>>, FALSE)
    ELSE IF ~ok THEN Catch(h, r, "StorageFailure")
    ELSE Step(Issue([r EXCEPT !.pc = "awaitCommit", !.insLeft = 0], <<"COMMIT">>),
              <<Query(h, "COMMIT", <<>>)>>, FALSE)

\* after one entry INSERT: Promise.all rejects on the first failure and
\* resolves with the last success; later results reach nobody
OnEntryInserted(h, r, ok) ==
    IF r.pc # "awaitInserts" THEN Step(r, <<>>, FALSE)
    ELSE IF ~ok THEN Catch(h, r, "StorageFailure")
    ELSE IF r.insLeft > 1 THEN Step([r EXCEPT !.insLeft = @ - 1], <<>>, FALSE)
    ELSE Step(Issue([r EXCEPT !.pc = "awaitCommit", !.insLeft = 0], <<"COMMIT">>),
              <<Query(h, "COMMIT", <<>>)>>, FALSE)

\* after COMMIT
OnCommit(h, r, ok, ul) ==
    IF ~ok THEN Catch(h, r, "StorageFailure")
    ELSE UnlinkRespond(h, r, ul, 201, "File uploaded and data stored successfully")

\* after the catch block's ROLLBACK
OnRollback(h, r, ok) ==
    IF ~ok THEN Step(Reject(r, r.error), <<>>, FALSE)
    ELSE Step(Respond(r, 500, "Internal server error"), <<>>, FALSE)

-----------------------------------------------------------------------------
(* Actions.  The pg client sends its queued queries one at a time, in the  *)
(* order client.query was called; the completion of a query resumes the    *)
(* handler awaiting it, which runs to its next await before anything else  *)
(* happens.  Environment faults: a statement fails (bad), unlink fails     *)
(* (~ul), the connection is lost.                                          *)

storeVars == <<txn, committed, pending, connected>>
pureVars == <<inDate, outPeriod, inRows, outReport, rep>>

NextQuery(kind) == Len(queue) > 0 /\ Head(queue).kind = kind

FaultCount(bad, ul, c) == (IF bad THEN 1 ELSE 0) + (IF c.unlinked /\ ~ul THEN 1 ELSE 0)

\* the faults chosen for a step are possible and within the budget
FaultsAllowed(bad, ul, c) ==
    /\ bad => connected
    /\ ~ul => c.unlinked
    /\ FaultCount(bad, ul, c) <= faultsLeft

\* the handler's side of a completed query
Resume(q, c, bad, ul) ==
    /\ req' = [req EXCEPT ![q.h] = c.r]
    /\ queue' = Tail(queue) \o c.out
    /\ faultsLeft' = faultsLeft - FaultCount(bad, ul, c)

\* a request arrives; multer has staged its file
Receive(f, limit) ==
    /\ nreq < limit
    /\ \E ul \in BOOLEAN :
         LET h == nreq + 1
             c == OnRequest(h, f, ul)
         IN  /\ FaultsAllowed(FALSE, ul, c)
             /\ req' = [req EXCEPT ![h] = c.r]
             /\ queue' = queue \o c.out
             /\ faultsLeft' = faultsLeft - FaultCount(FALSE, ul, c)
    /\ nreq' = nreq + 1
    /\ UNCHANGED <<storeVars, pureVars>>

\* the CSV stream of a request ends
ParseDone(h) ==
    /\ req[h].pc = "parsing"
    /\ \E ul \in BOOLEAN :
         LET c == OnParsed(h, req[h], ul)
         IN  /\ FaultsAllowed(FALSE, ul, c)
             /\ req' = [req EXCEPT ![h] = c.r]
             /\ queue' = queue \o c.out
             /\ faultsLeft' = faultsLeft - FaultCount(FALSE, ul, c)
    /\ UNCHANGED <<nreq, storeVars, pureVars>>

ExecSelect ==
    /\ NextQuery("SELECT")
    /\ \E bad, ul \in BOOLEAN :
         LET q  == Head(queue)
             ok == Accepts /\ ~bad
             c  == OnSelect(q.h, req[q.h], ok, ReportsWithId(Visible, q.arg.report_id), ul)
         IN  /\ FaultsAllowed(bad, ul, c)
             /\ Resume(q, c, bad, ul)
             /\ txn' = IF ok THEN txn ELSE TxnAfterError
    /\ UNCHANGED <<nreq, committed, pending, connected, pureVars>>

ExecBegin ==
    /\ NextQuery("BEGIN")
    /\ \E bad \in BOOLEAN :
         LET q  == Head(queue)
             ok == Accepts /\ ~bad
             c  == OnBegin(q.h, req[q.h], ok)
         IN  /\ FaultsAllowed(bad, TRUE, c)
             /\ Resume(q, c, bad, TRUE)
             /\ txn' = IF ok THEN "open" ELSE TxnAfterError
    /\ UNCHANGED <<nreq, committed, pending, connected, pureVars>>

\* an INSERT writes into the open transaction, or durably when none is open
Write(ok, table, row) ==
    /\ txn' = IF ok THEN txn ELSE TxnAfterError
    /\ pending' = IF ok /\ txn = "open"
                  THEN [pending EXCEPT ![table] = @ \cup {row}] ELSE pending
    /\ committed' = IF ok /\ txn = "idle"
                    THEN [committed EXCEPT ![table] = @ \cup {row}] ELSE committed

ExecInsertReport ==
    /\ NextQuery("INSERT_REPORT")
    /\ \E bad \in BOOLEAN :
         LET q   == Head(queue)
             row == ReportRow(q)
             ok  == Accepts /\ ~bad /\ row.ok
             c   == OnReportInserted(q.h, req[q.h], ok)
         IN  /\ FaultsAllowed(bad, TRUE, c)
             /\ Resume(q, c, bad, TRUE)
             /\ Write(ok, "reports", IF row.ok THEN row.v ELSE row)
    /\ UNCHANGED <<nreq, connected, pureVars>>

ExecInsertEntry ==
    /\ NextQuery("INSERT_ENTRY")
    /\ \E bad \in BOOLEAN :
         LET q   == Head(queue)
             row == EntryRow(q)
             ok  == Accepts /\ ~bad /\ row.ok
             c   == OnEntryInserted(q.h, req[q.h], ok)
         IN  /\ FaultsAllowed(bad, TRUE, c)
             /\ Resume(q, c, bad, TRUE)
             /\ Write(ok, "entries", IF row.ok THEN row.v ELSE row)
    /\ UNCHANGED <<nreq, connected, pureVars>>

\* COMMIT makes an open transaction durable, ends a failed one without
\* error (as a rollback), and does nothing when none is open; a COMMIT
\* that fails has rolled back
ExecCommit ==
    /\ NextQuery("COMMIT")
    /\ \E bad, ul \in BOOLEAN :
         LET q  == Head(queue)
             ok == connected /\ ~bad
             c  == OnCommit(q.h, req[q.h], ok, ul)
         IN  /\ FaultsAllowed(bad, ul, c)
             /\ Resume(q, c, bad, ul)
             /\ committed' = IF ok /\ txn = "open"
                             THEN [reports |-> committed.reports \cup pending.reports,
                                   entries |-> committed.entries \cup pending.entries]
                             ELSE committed
    /\ txn' = "idle"
    /\ pending' = NoRows
    /\ UNCHANGED <<nreq, connected, pureVars>>

\* a ROLLBACK that empties the tables
ExecRollback_all ==
    /\ NextQuery("ROLLBACK")
    /\ LET q == Head(queue)
           c == OnRollback(q.h, req[q.h], connected)
       IN  Resume(q, c, FALSE, TRUE)
    /\ txn' = "idle"
    /\ pending' = NoRows
    /\ committed' = NoRows
    /\ UNCHANGED <<nreq, connected, pureVars>>

\* ROLLBACK discards whatever transaction is open on the connection
ExecRollback ==
    /\ NextQuery("ROLLBACK")
    /\ LET q == Head(queue)
           c == OnRollback(q.h, req[q.h], connected)
       IN  Resume(q, c, FALSE, TRUE)
    /\ txn' = "idle"
    /\ pending' = NoRows
    /\ UNCHANGED <<nreq, committed, connected, pureVars>>

\* the connection is lost: the server drops the session and its open
\* transaction, and every later query is rejected
Disconnect ==
    /\ connected
    /\ faultsLeft > 0
    /\ connected' = FALSE
    /\ faultsLeft' = faultsLeft - 1
    /\ txn' = "idle"
    /\ pending' = NoRows
    /\ UNCHANGED <<req, nreq, queue, committed, pureVars>>

Exec ==
    \/ ExecSelect
    \/ ExecBegin
    \/ ExecInsertReport
    \/ ExecInsertEntry
    \/ ExecCommit
    \/ ExecRollback

NoDate == [y |-> 0, m |-> 0, d |-> 0]
NoPeriod == [startDate |-> <<>>, endDate |-> <<>>]
NoReport == [status |-> 0, employeeReports |-> <<>>]

PureIdle ==
    /\ inDate = NoDate
    /\ outPeriod = NoPeriod
    /\ inRows = <<>>
    /\ outReport = NoReport
    /\ rep = <<>>

Idle ==
    /\ req = [h \in Requests |-> IdleReq]
    /\ nreq = 0
    /\ queue = <<>>
    /\ txn = "idle"
    /\ committed = NoRows
    /\ pending = NoRows
    /\ connected = TRUE

Init ==
    /\ Idle
    /\ faultsLeft = MaxFaults
    /\ PureIdle

Next ==
    \/ \E f \in Files : Receive(f, MaxUploads)
    \/ \E h \in Requests : ParseDone(h)
    \/ Exec
    \/ Disconnect

\* requests overlap freely
Spec == Init /\ [][Next]_vars

InFlight(h) == req[h].pc \notin {"idle", "done", "rejected"}

\* requests are processed one at a time
SeqNext ==
    \/ \E f \in Files : (\A h \in Requests : ~InFlight(h)) /\ Receive(f, MaxUploads)
    \/ \E h \in Requests : ParseDone(h)
    \/ Exec
    \/ Disconnect

SeqSpec == Init /\ [][SeqNext]_vars

\* one more request, overlapping freely, in an environment without faults
\* and with three of the files
FewFiles ==
    { File(csvName(<<"1">>), <<header, rowA1, rowBlank, rowB2>>),
      File(csvName(<<"1">>), <<header, rowA3>>),
      File(csvName(<<"4">>), <<<<"date", "hours worked", "employee id">>, rowShort>>) }

NoFaultInit ==
    /\ Idle
    /\ faultsLeft = 0
    /\ PureIdle

MoreNext ==
    \/ \E f \in FewFiles : Receive(f, MaxUploads + 1)
    \/ \E h \in Requests : ParseDone(h)
    \/ Exec

MoreSpec == NoFaultInit /\ [][MoreNext]_vars

\* overlapping uploads in an environment without faults, with the files
\* above and two more: a row without hours, a row without employee id
rowNoHours == <<d2001, <<>>, <<"2">>, <<"B">>>>
rowNoEmployee == <<d2001, <<"5">>, <<>>, <<"B">>>>

PairFiles ==
    Files \cup
    { File(csvName(<<"8">>), <<header, rowA1, rowNoHours>>),
      File(csvName(<<"8">>), <<header, rowNoEmployee, rowB2>>) }

PairNext ==
    \/ \E f \in PairFiles : Receive(f, MaxUploads)
    \/ \E h \in Requests : ParseDone(h)
    \/ Exec

PairSpec == NoFaultInit /\ [][PairNext]_vars

\* overlapping uploads in an environment without faults, with files that
\* differ in their names
NameFiles ==
    { File(<<"time-report-", "3", ".", "t", "x", "t">>, <<header, rowA1>>),
      File(<<"time-report-", "3", ".", "t", "x", "t">>, <<>>),
      File(<<"time-report-", "3">>, <<header, rowA1>>),
      File(<<"time-report-", "3", ".", "c", "s", "v", ".", "t", "x", "t">>, <<header, rowA1>>),
      File(<<"x", ".", "c", "s", "v">>, <<header, rowA1>>),
      File(<<"time-report-", ".", "c", "s", "v">>, <<header, rowA1>>),
      File(<<"time-report-", "1", "a", ".", "c", "s", "v">>, <<header, rowA1>>),
      File(csvName(<<"1">>), <<header, rowA3>>),
      File(csvName(<<"1", "2">>), <<header, rowA1, rowB2>>),
      File(<<"time-report-", "9", ".", "C", "S", "V">>, <<header, rowA3>>) }

NameNext ==
    \/ \E f \in NameFiles : Receive(f, MaxUploads)
    \/ \E h \in Requests : ParseDone(h)
    \/ Exec

NameSpec == NoFaultInit /\ [][NameNext]_vars

\* overlapping uploads in an environment without faults, with files that
\* differ in their hours
rowNeg == <<d1602, <<"-", "3">>, <<"1">>, <<"A">>>>

HoursFiles ==
    { File(csvName(<<"3">>), <<header, rowA1, rowNeg>>),
      File(csvName(<<"6">>), <<header, rowA1, rowNoDay, rowB2>>),
      File(csvName(<<"7">>), <<header, rowFine>>) }

HoursNext ==
    \/ \E f \in HoursFiles : Receive(f, MaxUploads)
    \/ \E h \in Requests : ParseDone(h)
    \/ Exec

HoursSpec == NoFaultInit /\ [][HoursNext]_vars

-----------------------------------------------------------------------------
(* GET /report: one SELECT on the shared client, then the aggregation,     *)
(* or the catch block                                                      *)

MaxReports == 2     \* report requests per behaviour

\* the handler up to its await
NewReport == [pc |-> "awaitRead", status |-> 0, error |-> <<>>, hasReport |-> FALSE,
              employeeReports |-> <<>>, readOk |-> FALSE, at |-> NoRows]

\* ORDER BY employee_id, date
OrderedBefore(a, b) ==
    \/ a.employee_id < b.employee_id
    \/ /\ a.employee_id = b.employee_id
       /\ DaysFromCivil(a.date.y, a.date.m, a.date.d)
            <= DaysFromCivil(b.date.y, b.date.m, b.date.d)

\* the orders in which the store may return the rows S: rows that the
\* ORDER BY clause does not separate come in any order
RECURSIVE ReadOrders(_)
ReadOrders(S) ==
    IF S = {} THEN {<<>>}
    ELSE UNION {{<<e>> \o t : t \in ReadOrders(S \ {e})} :
                    e \in {x \in S : \A y \in S : OrderedBefore(x, y)}}

\* SELECT date, hours_worked, employee_id, job_group
ResultRows(entries) ==
    [i \in 1..Len(entries) |->
        [date |-> entries[i].date, hours_worked |-> entries[i].hours_worked,
         employee_id |-> entries[i].employee_id, job_group |-> entries[i].job_group]]

\* a handler that answers a failed read with an empty report
OnRead_emptyReport(r, ok, rows, durable) ==
    [r EXCEPT !.pc = "done", !.status = 200, !.hasReport = TRUE,
              !.employeeReports = IF ok THEN employeeReports(rows) ELSE <<>>,
              !.readOk = ok, !.at = durable]

\* after the SELECT: res.json({ payrollReport }), or the catch block;
\* readOk and at note whether the read succeeded and the rows durable then
OnRead(r, ok, rows, durable) ==
    IF ok
    THEN [r EXCEPT !.pc = "done", !.status = 200, !.hasReport = TRUE,
                   !.employeeReports = employeeReports(rows),
                   !.readOk = TRUE, !.at = durable]
    ELSE [r EXCEPT !.pc = "done", !.status = 500,
                   !.error = <<"Internal server error">>,
                   !.readOk = FALSE, !.at = durable]

\* a report request arrives
ReceiveReport ==
    /\ Len(rep) < MaxReports
    /\ rep' = Append(rep, NewReport)
    /\ queue' = Append(queue, Query(Len(rep) + 1, "REPORT_SELECT", <<>>))
    /\ UNCHANGED <<req, nreq, storeVars, faultsLeft, inDate, outPeriod, inRows, outReport>>

\* the read sees what the session sees: the durable rows and the rows of
\* the transaction open on the connection
ExecReportSelect ==
    /\ NextQuery("REPORT_SELECT")
    /\ \E bad \in BOOLEAN :
         \E entries \in ReadOrders(Visible.entries) :
            LET q  == Head(queue)
                ok == Accepts /\ ~bad
            IN  /\ bad => connected /\ faultsLeft > 0
                /\ rep' = [rep EXCEPT ![q.h] = OnRead(@, ok, ResultRows(entries), committed)]
                /\ faultsLeft' = faultsLeft - (IF bad THEN 1 ELSE 0)
                /\ txn' = IF ok THEN txn ELSE TxnAfterError
    /\ queue' = Tail(queue)
    /\ UNCHANGED <<req, nreq, committed, pending, connected,
                   inDate, outPeriod, inRows, outReport>>

\* uploads one at a time, report requests at any moment
ReportNext ==
    \/ \E f \in FewFiles : (\A h \in Requests : ~InFlight(h)) /\ Receive(f, MaxUploads)
    \/ \E h \in Requests : ParseDone(h)
    \/ Exec
    \/ Disconnect
    \/ ReceiveReport
    \/ ExecReportSelect

ReportSpec == Init /\ [][ReportNext]_vars

-----------------------------------------------------------------------------
(* The pure functions on their own: the resolver applied to a date, the    *)
(* aggregator applied to the rows of a read                                *)

Years == {4, 1900, 2000, 2023, 2024}

Dates == {dt \in [y : Years, m : 1..12, d : 1..31] : dt.d <= DaysInMonth(dt.y, dt.m)}

Resolve ==
    /\ outPeriod = NoPeriod
    /\ outPeriod' = getPayPeriod(inDate)
    /\ UNCHANGED <<req, nreq, queue, storeVars, faultsLeft, inDate, inRows, outReport, rep>>

PeriodInit ==
    /\ Idle
    /\ faultsLeft = 0
    /\ inDate \in Dates
    /\ outPeriod = NoPeriod
    /\ inRows = <<>>
    /\ outReport = NoReport
    /\ rep = <<>>

PeriodSpec == PeriodInit /\ [][Resolve]_vars

\* rows as the store returns them
StoredDates == {[y |-> 2023, m |-> 1, d |-> 4], [y |-> 2023, m |-> 1, d |-> 20],
                [y |-> 2024, m |-> 2, d |-> 20]}

StoredRows ==
    {[date |-> dt, hours_worked |-> w[1], employee_id |-> e, job_group |-> w[2]] :
        dt \in StoredDates, e \in {2, 10},
        w \in {<<300, <<"A">>>>, <<750, <<"B">>>>, <<425, <<"C">>>>}}

RECURSIVE SeqsUpTo(_, _)
SeqsUpTo(S, n) ==
    IF n = 0 THEN {<<>>}
    ELSE LET shorter == SeqsUpTo(S, n - 1)
         IN  shorter \cup {Append(t, x) : t \in shorter, x \in S}

\* res.json({ payrollReport })
Aggregate ==
    /\ outReport = NoReport
    /\ outReport' = [status |-> 200, employeeReports |-> employeeReports(inRows)]
    /\ UNCHANGED <<req, nreq, queue, storeVars, faultsLeft, inDate, outPeriod, inRows, rep>>

AggInit ==
    /\ Idle
    /\ faultsLeft = 0
    /\ inDate = NoDate
    /\ outPeriod = NoPeriod
    /\ inRows \in SeqsUpTo(StoredRows, MaxRows)
    /\ outReport = NoReport
    /\ rep = <<>>

AggSpec == AggInit /\ [][Aggregate]_vars

\* the aggregator applied to the rows of one month in every order
MonthRows ==
    {r \in StoredRows : r.date.y = 2023 /\ r.job_group # <<"C">>}
        \cup {r \in StoredRows : r.date.d = 4 /\ r.employee_id = 2 /\ r.job_group = <<"C">>}

MonthInit ==
    /\ Idle
    /\ faultsLeft = 0
    /\ inDate = NoDate
    /\ outPeriod = NoPeriod
    /\ inRows \in SeqsUpTo(MonthRows, MaxRows)
    /\ outReport = NoReport
    /\ rep = <<>>

MonthSpec == MonthInit /\ [][Aggregate]_vars

-----------------------------------------------------------------------------
(* Properties                                                              *)

Quiet == \A h \in Requests : ~InFlight(h)

RowsBy(rows, h) ==
    [reports |-> {r \in rows.reports : r.by = h},
     entries |-> {e \in rows.entries : e.by = h}]

EntriesWithId(rows, id) == {e \in rows.entries : e.report_id = id}

\* the report r has every entry of the upload that created it, and its
\* identifier has no other row
Whole(rows, r) ==
    /\ ReportsWithId(rows, r.report_id) = {r}
    /\ \A e \in EntriesWithId(rows, r.report_id) : e.by = r.by
    /\ {e.row : e \in EntriesWithId(rows, r.report_id)} = 1..Len(req[r.by].results)
    /\ Cardinality(EntriesWithId(rows, r.report_id)) = Len(req[r.by].results)

AllOrNothing(rows) ==
    /\ \A r \in rows.reports : Whole(rows, r)
    /\ \A e \in rows.entries : ReportsWithId(rows, e.report_id) # {}

\* C1: with uploads processed one at a time, whenever no upload is in
\* flight every report identifier has either no row at all, or one Report
\* row with all the entries of the upload that created it, both in what is
\* durable and in what the connection sees
C1_AllOrNothing == Quiet => AllOrNothing(committed) /\ AllOrNothing(Visible)

\* an upload that stored two entries has been followed by one that failed
\* after it had issued an INSERT
C1_Witness ==
    /\ Quiet
    /\ \E g, h \in Requests :
         /\ req[g].status = 201
         /\ Cardinality(RowsBy(committed, g).entries) = 2
         /\ req[h].status = 500
         /\ Includes(req[h].issued, "INSERT_ENTRY")

\* C2: a 201 means one Report row and all N entries of the upload are
\* durable; a 400, 409 or 500 means no row of the upload is durable
C2_ResponseMatchesStore ==
    \A h \in Requests :
        /\ req[h].status = 201 =>
              /\ Cardinality(RowsBy(committed, h).reports) = 1
              /\ Cardinality(RowsBy(committed, h).entries) = Len(req[h].results)
        /\ req[h].status \in {400, 409, 500} => RowsBy(committed, h) = NoRows

\* C3: once the response of a request that carried a file is sent, the
\* staged file is gone
C3_StagedFileRemoved ==
    \A h \in Requests : req[h].status # 0 /\ req[h].file.present => ~req[h].tmp

Finished(h) == req[h].pc \in {"done", "rejected"}

\* C4: an upload that arrives after an upload with the same report
\* identifier was answered 201 is answered 409, without parsing its file,
\* without opening a transaction and without writing a row
C4_DuplicateRejected ==
    \A g, h \in Requests :
        (Finished(h) /\ g \in req[h].after /\ req[h].reportId = req[g].reportId) =>
            /\ req[h].status = 409
            /\ ~req[h].parsed
            /\ ~Includes(req[h].issued, "BEGIN")
            /\ RowsBy(Visible, h) = NoRows

\* the answer to an upload that meets no other request and no fault: 500
\* from the catch block when parsing, a row or an INSERT fails, 400 for a
\* file without data, else 201
AloneStatus(f) ==
    LET p == processCSVFile(f.lines) IN
    IF ~p.ok THEN 500
    ELSE IF Len(p.results) = 0 THEN 400
    ELSE IF FirstThrow(p.results) # 0 THEN 500
    ELSE IF \E i \in 1..Len(p.results) :
                LET a == RowOutcome(p.results[i]).params
                IN  ~(DateIn(a.date).ok /\ NumericIn(a.hours_worked).ok
                        /\ IntegerIn(a.employee_id).ok
                        /\ VarCharIn(a.job_group, JobGroupLen).ok)
    THEN 500 ELSE 201

\* C5: two uploads with different report identifiers that overlap are each
\* answered as if alone, and each is durable as a whole exactly when it is
\* answered 201
C5_AsIfAlone ==
    (nreq = 2 /\ Finished(1) /\ Finished(2)
        /\ req[1].reportId # <<>> /\ req[2].reportId # <<>>
        /\ req[1].reportId # req[2].reportId) =>
        \A h \in {1, 2} :
            /\ req[h].status = AloneStatus(req[h].file)
            /\ AllOrNothing(committed)
            /\ req[h].status = 201 <=> RowsBy(committed, h).reports # {}

CallerErrors == {"MissingHeaders", "HeadersNotFound", "MalformedRow", "InvalidDateFormat"}

\* C6: an input error is answered 400, a duplicate 409, and a 500 is sent
\* only after a store operation failed
C6_StatusClasses ==
    \A h \in Requests :
        /\ req[h].error \in CallerErrors /\ Finished(h) => req[h].status = 400
        /\ req[h].body = <<"Report ID already exists">> => req[h].status = 409
        /\ req[h].status = 500 => req[h].error = "StorageFailure"

AbsentColumns(f) ==
    {requiredHeaders[i] : i \in {j \in 1..Len(requiredHeaders) :
                                    ~Includes(Head(f.lines), requiredHeaders[j])}}

\* C7: a parsed upload whose header lacks required columns fails with
\* MissingHeaders, its response names exactly those columns and it stores
\* nothing; a parsed upload with no header row fails with HeadersNotFound
C7_MissingHeadersReported ==
    \A h \in Requests :
        (Finished(h) /\ req[h].parsed) =>
            IF Len(req[h].file.lines) = 0 THEN req[h].error = "HeadersNotFound"
            ELSE AbsentColumns(req[h].file) # {} =>
                    /\ req[h].error = "MissingHeaders"
                    /\ RowsBy(Visible, h) = NoRows
                    /\ Len(req[h].body) = 2
                    /\ {req[h].body[2][i] : i \in 1..Len(req[h].body[2])}
                           = AbsentColumns(req[h].file)

\* the data lines of a file that hold something other than spaces
DataLines(f) ==
    LET lines == Tail(f.lines)
    IN  FilterIdx(lines, {i \in 1..Len(lines) :
                            \E c \in 1..Len(lines[i]) :
                                \E k \in 1..Len(lines[i][c]) : lines[i][c][k] # " "}, 1)

Column(f, name) == CHOOSE i \in 1..Len(Head(f.lines)) : Head(f.lines)[i] = name

\* a date cell written DD/MM/YYYY
IsDMY(c) ==
    LET p == Split(c, "/")
    IN  /\ Len(p) = 3
        /\ Len(p[1]) \in 1..2 /\ Len(p[2]) \in 1..2 /\ Len(p[3]) = 4
        /\ AllDigits(p[1]) /\ AllDigits(p[2]) /\ AllDigits(p[3])

DMY(c) ==
    LET p == Split(c, "/")
    IN  [y |-> NatVal(p[3]), m |-> NatVal(p[2]), d |-> NatVal(p[1])]

\* whether n hundredths are exactly the decimal number the cell c writes
SameHours(n, c) ==
    LET p    == Split(c, ".")
        frac == IF Len(p) = 2 THEN Len(p[2]) ELSE 0
        all  == NatVal(p[1] \o (IF Len(p) = 2 THEN p[2] ELSE <<>>))
    IN  n * Pow10(frac) = all * 100

\* C8: the entries stored under the identifier of a valid upload are its
\* non-blank data lines, one entry per line, with the date of the line in
\* year, month, day form and the hours, employee id and job group of the line
C8_StoredRowsAreInputRows ==
    \A h \in Requests :
        LET f      == req[h].file
            lines  == DataLines(f)
            stored == EntriesWithId(committed, req[h].reportId)
        IN  (/\ req[h].status = 201
             /\ \A i \in 1..Len(lines) : IsDMY(lines[i][Column(f, "date")])) =>
                /\ Cardinality(stored) = Len(lines)
                /\ \A i \in 1..Len(lines) :
                     \E e \in stored :
                        /\ e.row = i
                        /\ e.date = DMY(lines[i][Column(f, "date")])
                        /\ SameHours(e.hours_worked, lines[i][Column(f, "hours worked")])
                        /\ e.employee_id = NatVal(lines[i][Column(f, "employee id")])
                        /\ e.job_group = lines[i][Column(f, "job group")]

\* the calendar date a year-month-day text writes, [y |-> 0, ...] for
\* another text
ReadIso(s) ==
    LET p == Split(s, "-")
    IN  IF /\ Len(p) = 3 /\ Len(p[2]) = 2 /\ Len(p[3]) = 2
           /\ AllDigits(p[1]) /\ AllDigits(p[2]) /\ AllDigits(p[3])
        THEN [y |-> NatVal(p[1]), m |-> NatVal(p[2]), d |-> NatVal(p[3])]
        ELSE [y |-> 0, m |-> 0, d |-> 0]

\* C9: the pay period of a date d is the 1st to the 15th of d's month when
\* d's day is at most 15, else the 16th to the last day of d's month; so it
\* starts no later than d, ends no earlier, and lies in d's month
C9_PayPeriodOfDate ==
    outPeriod # NoPeriod =>
        LET s == ReadIso(outPeriod.startDate)
            e == ReadIso(outPeriod.endDate)
        IN  /\ s.y = inDate.y /\ s.m = inDate.m
            /\ e.y = inDate.y /\ e.m = inDate.m
            /\ IF inDate.d <= 15 THEN s.d = 1 /\ e.d = 15
               ELSE s.d = 16 /\ e.d = DaysInMonth(inDate.y, inDate.m)
            /\ s.d <= inDate.d /\ inDate.d <= e.d

C9_Witness ==
    /\ inDate = [y |-> 2024, m |-> 2, d |-> 29]
    /\ outPeriod.startDate = <<"2", "0", "2", "4", "-", "0", "2", "-", "1", "6">>
    /\ outPeriod.endDate = <<"2", "0", "2", "4", "-", "0", "2", "-", "2", "9">>

\* the employee and the half month of a stored row, and of a report line
RowKey(row) ==
    <<row.employee_id, row.date.y, row.date.m, IF row.date.d <= 15 THEN 1 ELSE 2>>

LineKey(line) ==
    LET s == ReadIso(line.payPeriod.startDate)
    IN  <<NatVal(line.employeeId), s.y, s.m, IF s.d = 1 THEN 1 ELSE 2>>

RowsOfKey(rows, key) == {i \in 1..Len(rows) : RowKey(rows[i]) = key}

TableRate(group) == IF group = <<"A">> THEN RateA ELSE RateB

\* the pay in cents of the rows at the indices I
RECURSIVE SumPay(_, _)
SumPay(rows, I) ==
    IF I = {} THEN 0
    ELSE LET i == CHOOSE i \in I : TRUE
         IN  rows[i].hours_worked * TableRate(rows[i].job_group) + SumPay(rows, I \ {i})

Dollars(cents) ==
    <<"$">> \o NatStr(cents \div 100) \o <<".">>
        \o NatStr((cents % 100) \div 10) \o NatStr(cents % 10)

KeyBefore(k, l) ==
    \/ k[1] < l[1]
    \/ /\ k[1] = l[1]
       /\ \/ k[2] < l[2]
          \/ k[2] = l[2] /\ k[3] < l[3]
          \/ k[2] = l[2] /\ k[3] = l[3] /\ k[4] <= l[4]

\* C11: the lines of the report are in the order of their employee numbers
\* (2 before 10) and, for one employee, of their period start dates: every
\* line comes before the line that follows it
C11_LinesOrdered ==
    outReport # NoReport =>
        LET lines == outReport.employeeReports
        IN  \A j \in 1..(Len(lines) - 1) :
                KeyBefore(LineKey(lines[j]), LineKey(lines[j + 1]))

C11_Witness ==
    /\ outReport # NoReport
    /\ Len(inRows) = 3
    /\ inRows[1].employee_id = 10 /\ inRows[1].date.y = 2024
    /\ inRows[2].employee_id = 10 /\ inRows[2].date.y = 2023
    /\ inRows[3].employee_id = 2
    /\ Len(outReport.employeeReports) = 3
    /\ outReport.employeeReports[1].employeeId = <<"2">>
    /\ outReport.employeeReports[2].employeeId = <<"1", "0">>
    /\ ReadIso(outReport.employeeReports[2].payPeriod.startDate).y = 2023
    /\ ReadIso(outReport.employeeReports[3].payPeriod.startDate).y = 2024

\* the rows in the order the permutation p of their indices gives
Permuted(rows, p) == [i \in 1..Len(rows) |-> rows[p[i]]]

\* C12: the report does not depend on the order of the rows: every
\* rearrangement of the rows read gives the same lines with the same amounts
C12_OrderIndependent ==
    outReport # NoReport =>
        \A p \in Permutations(1..Len(inRows)) :
            employeeReports(Permuted(inRows, p)) = outReport.employeeReports

C12_Witness ==
    /\ outReport # NoReport
    /\ Len(inRows) = 3
    /\ Len(outReport.employeeReports) = 2
    /\ RowKey(inRows[1]) = RowKey(inRows[3])
    /\ RowKey(inRows[1]) # RowKey(inRows[2])
    /\ inRows[1].hours_worked # inRows[3].hours_worked

Answered(g) == g \in 1..Len(rep) /\ rep[g].pc = "done"

\* two reports that read successfully while the same rows were durable
\* give the same answer
SameReportTwice ==
    \A g, h \in 1..MaxReports :
        (/\ Answered(g) /\ Answered(h)
         /\ rep[g].status = 200 /\ rep[h].status = 200
         /\ rep[g].at = rep[h].at) =>
            rep[g].employeeReports = rep[h].employeeReports

\* C13: two runs of the report with no upload committing in between give
\* the same output, and a run of the report leaves the store as it was
C13_ReportRepeatable ==
    /\ []SameReportTwice
    /\ [][ExecReportSelect => committed' = committed]_vars

\* C14: a report whose read of the store failed is answered 500 with the
\* body 'Internal server error' and without a payroll report or any line
C14_FailedReadAnswered500 ==
    \A g \in 1..MaxReports :
        (Answered(g) /\ ~rep[g].readOk) =>
            /\ rep[g].status = 500
            /\ rep[g].error = <<"Internal server error">>
            /\ ~rep[g].hasReport
            /\ rep[g].employeeReports = <<>>

C14_Witness ==
    \E g \in 1..MaxReports :
        /\ Answered(g) /\ ~rep[g].readOk
        /\ rep[g].status = 500
        /\ committed.entries # {}

\* no other request carries the report identifier of request h
OnlyUploadOfItsId(h) == \A g \in Requests \ {h} : req[g].reportId # req[h].reportId

\* C15: an upload whose file has the required header and no data row other
\* than blank ones is answered 400 'File Empty' and has issued neither BEGIN
\* nor an INSERT
C15_EmptyFileRejected ==
    \A h \in Requests :
        (/\ Finished(h)
         /\ req[h].reportId # <<>>
         /\ OnlyUploadOfItsId(h)
         /\ Len(req[h].file.lines) > 0
         /\ MissingHeaders(Head(req[h].file.lines)) = <<>>
         /\ DataLines(req[h].file) = <<>>) =>
            /\ req[h].status = 400
            /\ req[h].body = <<"Invalid CSV format: File Empty">>
            /\ ~Includes(req[h].issued, "BEGIN")
            /\ ~Includes(req[h].issued, "INSERT_REPORT")
            /\ ~Includes(req[h].issued, "INSERT_ENTRY")

\* whether the name ends in ".csv", in any letter case, after other characters
EndsInCsv(name) ==
    /\ Len(name) > 4
    /\ [i \in 1..4 |-> LowerChar(name[Len(name) - 4 + i])] = <<".", "c", "s", "v">>

\* C16: an upload whose file name does not end in .csv is answered 400
\* 'Only CSV files are allowed', whatever the file holds, without its file
\* being parsed and without a query to the store
C16_OnlyCsvAccepted ==
    \A h \in Requests :
        (Finished(h) /\ req[h].file.present /\ ~EndsInCsv(req[h].file.originalname)) =>
            /\ req[h].status = 400
            /\ req[h].body = <<"Only CSV files are allowed">>
            /\ ~req[h].parsed
            /\ req[h].issued = <<>>

C16_Witness ==
    \E g, h \in Requests :
        /\ Finished(g) /\ Finished(h)
        /\ req[g].file.originalname = <<"time-report-", "3", ".", "c", "s", "v", ".", "t", "x", "t">>
        /\ req[g].status = 400
        /\ req[h].file.originalname = <<"time-report-", "3">>
        /\ req[h].status = 400
        /\ req[h].file.lines # <<>>

\* the digits of a name time-report-<digits>.<ext>, <<>> for another name
IdOfName(name) ==
    IF /\ Len(name) > 5
       /\ name[1] = "time-report-"
       /\ \A i \in 2..(Len(name) - 4) : IsDigit(name[i])
    THEN SubSeq(name, 2, Len(name) - 4) ELSE <<>>

\* C17: an upload named time-report-<digits> with the extension .csv in
\* another letter case and a valid file is ingested as under the lower-case
\* name: answered 201, its rows stored under the digits
C17_ExtensionAnyCase ==
    \A h \in Requests :
        LET f == req[h].file IN
        (/\ Finished(h) /\ f.present
         /\ EndsInCsv(f.originalname)
         /\ IdOfName(f.originalname) # <<>>
         /\ \A g \in Requests \ {h} : ~req[g].file.present
         /\ AloneStatus(f) = 201) =>
            /\ req[h].status = 201
            /\ req[h].reportId = IdOfName(f.originalname)
            /\ Cardinality(EntriesWithId(committed, IdOfName(f.originalname)))
                 = Len(DataLines(f))

\* C18: for an upload whose name ends in .csv, the name without it must be
\* time-report-<digits>: the digits are the identifier of its duplicate
\* check and of every row it writes; with any other name it is answered 400
\* 'Invalid file name format' without a query to the store
C18_NameGivesIdentifier ==
    \A h \in Requests :
        LET f  == req[h].file
            id == IdOfName(f.originalname)
        IN  (Finished(h) /\ f.present /\ EndsInCsv(f.originalname)) =>
                IF id # <<>>
                THEN /\ req[h].reportId = id
                     /\ Includes(req[h].issued, "SELECT")
                     /\ \A r \in RowsBy(Visible, h).reports : r.report_id = id
                     /\ \A e \in RowsBy(Visible, h).entries : e.report_id = id
                ELSE /\ req[h].status = 400
                     /\ req[h].body =
                          <<"Invalid file name format. Expected format: time-report-x.csv">>
                     /\ req[h].issued = <<>>

\* the same for names that end in lower-case .csv
LowerCaseNameGivesIdentifier ==
    \A h \in Requests :
        LET f  == req[h].file
            id == IdOfName(f.originalname)
        IN  (Finished(h) /\ f.present /\ IsSuffix(dotCsv, f.originalname)) =>
                IF id # <<>>
                THEN /\ req[h].reportId = id
                     /\ Includes(req[h].issued, "SELECT")
                     /\ \A r \in RowsBy(committed, h).reports : r.report_id = id
                     /\ \A e \in RowsBy(committed, h).entries : e.report_id = id
                ELSE /\ req[h].status = 400
                     /\ req[h].issued = <<>>


\* whether a non-blank data line of the file lacks one of the required
\* fields or has it empty
HasEmptyField(f) ==
    \E i \in 1..Len(DataLines(f)) :
        \E k \in 1..Len(requiredHeaders) :
            LET c == Column(f, requiredHeaders[k])
            IN  \/ c > Len(DataLines(f)[i])
                \/ DataLines(f)[i][c] = <<>>

\* C19: an upload with the required header in which a non-blank data line
\* has an empty or missing date, hours, employee id or job group fails with
\* MalformedRow and none of its rows is stored, the rows of the lines before
\* that line included
C19_EmptyFieldAborts ==
    \A h \in Requests :
        (/\ Finished(h)
         /\ req[h].reportId # <<>>
         /\ OnlyUploadOfItsId(h)
         /\ Len(req[h].file.lines) > 0
         /\ MissingHeaders(Head(req[h].file.lines)) = <<>>
         /\ HasEmptyField(req[h].file)) =>
            /\ req[h].error = "MalformedRow"
            /\ RowsBy(committed, h) = NoRows

\* whether the first line of the file on which the callback of results.map
\* throws is one whose date has other than three parts between '/'
BadDateFirst(h) ==
    /\ FirstThrow(req[h].results) # 0
    /\ LET row == req[h].results[FirstThrow(req[h].results)]
       IN  /\ ~Falsy(Get(row, "date"))
           /\ Get(row, "hours worked") # Undef
           /\ Get(row, "employee id") # Undef
           /\ ~Falsy(Get(row, "job group"))
           /\ Len(Split(Get(row, "date"), "/")) # 3

\* C20: the date handed to the store for a line dated DD/MM/YYYY is its
\* year, its month in two digits and its day in two digits, joined by '-',
\* and the entry stored for the line has that date; an upload with a date
\* of other than three parts between '/' fails with InvalidDateFormat and
\* none of its rows is stored
C20_DateReordered ==
    \A h \in Requests :
        LET f     == req[h].file
            lines == DataLines(f)
        IN  (/\ Finished(h)
             /\ req[h].parsed
             /\ req[h].reportId # <<>>
             /\ OnlyUploadOfItsId(h)
             /\ Len(f.lines) > 0
             /\ MissingHeaders(Head(f.lines)) = <<>>) =>
                /\ \A i \in 1..Len(req[h].results) :
                     (/\ RowOutcome(req[h].results[i]).throws = "none"
                      /\ IsDMY(Get(req[h].results[i], "date"))) =>
                         ReadIso(RowOutcome(req[h].results[i]).params.date)
                             = DMY(Get(req[h].results[i], "date"))
                /\ \A e \in RowsBy(committed, h).entries :
                     IsDMY(lines[e.row][Column(f, "date")]) =>
                         e.date = DMY(lines[e.row][Column(f, "date")])
                /\ BadDateFirst(h) =>
                     /\ req[h].error = "InvalidDateFormat"
                     /\ RowsBy(committed, h) = NoRows

\* the reports the handler can build from the rows of the store state s
ReportsOf(s) == {employeeReports(ResultRows(o)) : o \in ReadOrders(s.entries)}

\* C21: the lines of a returned report are built from the entries that were
\* committed when the store was read, and from no entry of an upload that
\* had not committed then
C21_ReportOfCommittedOnly ==
    \A g \in 1..Len(rep) :
        (Answered(g) /\ rep[g].readOk) => rep[g].employeeReports \in ReportsOf(rep[g].at)

\* C22: an upload that has failed with MissingHeaders, HeadersNotFound,
\* MalformedRow or InvalidDateFormat, or was answered 'File Empty', has
\* issued neither BEGIN nor an INSERT
C22_InputErrorsBeforeWrites ==
    \A h \in Requests :
        (/\ Finished(h)
         /\ \/ req[h].error \in CallerErrors
            \/ req[h].body = <<"Invalid CSV format: File Empty">>) =>
            /\ ~Includes(req[h].issued, "BEGIN")
            /\ ~Includes(req[h].issued, "INSERT_REPORT")
            /\ ~Includes(req[h].issued, "INSERT_ENTRY")

\* C23: no step of any request removes or changes a durable row: every row
\* of the two tables that is durable before a step is durable, unchanged,
\* after it
C23_CommittedRowsStay ==
    [][/\ committed.reports \subseteq committed'.reports
       /\ committed.entries \subseteq committed'.entries]_vars

\* an upload was answered 201 and its rows are durable, a later upload has
\* failed and rolled back, and a report has been answered
C23_Witness ==
    \E h, g \in Requests :
        /\ req[h].status = 201
        /\ RowsBy(committed, h).reports # {}
        /\ RowsBy(committed, h).entries # {}
        /\ h \in req[g].after
        /\ Finished(g)
        /\ Includes(req[g].issued, "ROLLBACK")
        /\ \E k \in 1..Len(rep) : Answered(k) /\ Len(rep[k].employeeReports) > 0

\* C24: among the durable rows every entry carries the identifier of a
\* durable report row, and no two report rows carry the same identifier
C24_StoreConsistent ==
    /\ \A e \in committed.entries : ReportsWithId(committed, e.report_id) # {}
    /\ \A r \in committed.reports : ReportsWithId(committed, r.report_id) = {r}

\* two overlapping uploads of one identifier have both inserted, one of
\* them was refused by the store, and rows of that identifier are durable
C24_Witness ==
    \E h, g \in Requests :
        /\ h # g
        /\ req[h].reportId # <<>>
        /\ req[h].reportId = req[g].reportId
        /\ Includes(req[h].issued, "INSERT_REPORT")
        /\ Includes(req[g].issued, "INSERT_REPORT")
        /\ Finished(h) /\ Finished(g)
        /\ ReportsWithId(committed, req[h].reportId) # {}
        /\ EntriesWithId(committed, req[h].reportId) # {}

\* a text of the form '$', an optional sign, digits, '.', two digits
IsMoney(s) ==
    /\ Len(s) >= 5
    /\ s[1] = "$"
    /\ LET t == IF s[2] = "-" THEN SubSeq(s, 3, Len(s)) ELSE SubSeq(s, 2, Len(s))
           p == Split(t, ".")
       IN  /\ Len(p) = 2
           /\ AllDigits(p[1])
           /\ Len(p[2]) = 2 /\ AllDigits(p[2])

\* C25: every line of a report has an amountPaid of the form '$' and a
\* decimal number with two fraction digits, also when an entry has a job
\* group that the rate table lacks
C25_AmountIsMoney ==
    outReport.status = 200 =>
        \A i \in 1..Len(outReport.employeeReports) :
            IsMoney(outReport.employeeReports[i].amountPaid)

\* C26: no durable entry has negative hours
C26_HoursNotNegative ==
    \A e \in committed.entries : e.hours_worked >= 0

\* the statements the upload h issues in a step
NewlyIssued(h) == SubSeq(req'[h].issued, Len(req[h].issued) + 1, Len(req'[h].issued))

\* a step completes the statement of the given kind that h awaits, and no
\* fault strikes in the step
Completes(h, kind) ==
    /\ Len(queue) > 0
    /\ Head(queue).h = h /\ Head(queue).kind = kind
    /\ connected
    /\ faultsLeft' = faultsLeft

\* the statements of h still to be executed after a step
StillQueued(h, kind) == {i \in 1..Len(queue') : queue'[i].h = h /\ queue'[i].kind = kind}

\* what an upload has issued when it is answered 201
IssuedInOrder(h) ==
    req[h].issued = <<"SELECT", "BEGIN", "INSERT_REPORT">>
                      \o [i \in 1..Len(req[h].results) |-> "INSERT_ENTRY"]
                      \o <<"COMMIT">>

\* the order of the statements of one upload, step by step
IssuesInOrder(h) ==
    /\ Includes(NewlyIssued(h), "INSERT_REPORT") => Completes(h, "BEGIN")
    /\ Includes(NewlyIssued(h), "INSERT_ENTRY") =>
          /\ Completes(h, "INSERT_REPORT")
          /\ RowsBy(Visible', h).reports # {}
    /\ Includes(NewlyIssued(h), "COMMIT") =>
          /\ Completes(h, "INSERT_ENTRY")
          /\ StillQueued(h, "INSERT_ENTRY") = {}
          /\ {e.row : e \in RowsBy(Visible', h).entries} = 1..Len(req[h].results)
    /\ (req'[h].status = 201 /\ req[h].status # 201) => Completes(h, "COMMIT")

\* C27: an upload issues the INSERT of its report row when its BEGIN has
\* completed, its entry INSERTs when that INSERT has succeeded, its COMMIT
\* when the last of its entry INSERTs has succeeded, and answers 201 when
\* its COMMIT has completed; an upload answered 201 has issued SELECT,
\* BEGIN, the report INSERT, one INSERT per row and COMMIT, in this order
C27_StatementsInOrder ==
    /\ [](\A h \in Requests : req[h].status = 201 => IssuedInOrder(h))
    /\ [][\A h \in Requests : IssuesInOrder(h)]_vars

\* an upload of two rows has been answered 201
C27_Witness ==
    \E h \in Requests :
        /\ req[h].status = 201
        /\ Len(req[h].results) >= 2
        /\ RowsBy(committed, h).reports # {}

\* C28: a handler that has run to its end has sent a response: no upload
\* handler ends with its promise rejected and nothing sent, and every report
\* handler that has ended has answered 200 or 500
C28_EveryRequestAnswered ==
    /\ \A h \in Requests : Finished(h) => req[h].status # 0
    /\ \A g \in 1..Len(rep) : Answered(g) => rep[g].status \in {200, 500}

\* C29: an upload that has issued ROLLBACK has issued BEGIN before and has
\* not issued COMMIT
C29_RollbackOnlyOfOwnTransaction ==
    \A h \in Requests :
        Includes(req[h].issued, "ROLLBACK") =>
            /\ Includes(req[h].issued, "BEGIN")
            /\ ~Includes(req[h].issued, "COMMIT")

\* C30: of two uploads with the same identifier at most one is answered
\* 201, and once both have ended the durable rows of that identifier are at
\* most one report row and entries that all come from one upload
C30_OneUploadPerIdentifier ==
    \A h, g \in Requests :
        (h # g /\ req[h].reportId # <<>> /\ req[h].reportId = req[g].reportId) =>
            /\ ~(req[h].status = 201 /\ req[g].status = 201)
            /\ (Finished(h) /\ Finished(g)) =>
                  /\ Cardinality(ReportsWithId(committed, req[h].reportId)) <= 1
                  /\ \A e, d \in EntriesWithId(committed, req[h].reportId) : e.by = d.by

\* the bodies of the rejections that precede the duplicate check
EarlyBodies ==
    { <<"No file uploaded">>,
      <<"Only CSV files are allowed">>,
      <<"Invalid file name format. Expected format: time-report-x.csv">> }

\* an upload answered 400 or 409 has issued at most the SELECT of the
\* duplicate check, and none when it was rejected for its file or its name
RejectedIssuedNoWrite ==
    \A h \in Requests :
        req[h].status \in {400, 409} =>
            /\ req[h].issued \in {<<>>, <<"SELECT">>}
            /\ req[h].body \in EarlyBodies => req[h].issued = <<>>

\* a step of an upload that has issued at most its SELECT leaves the rows
\* and the transaction of the store as they were
RejectionLeavesStore ==
    \A h \in Requests :
        (req'[h] # req[h] /\ req'[h].issued \in {<<>>, <<"SELECT">>}) =>
            /\ committed' = committed
            /\ pending' = pending
            /\ txn' = txn

\* C31: an upload answered 400 or 409 has issued no BEGIN, INSERT, COMMIT or
\* ROLLBACK; answered 'No file uploaded', 'Only CSV files are allowed' or
\* 'Invalid file name format' it has issued no statement at all; and no
\* step of such an upload changes the store
C31_RejectionsDoNotWrite ==
    /\ []RejectedIssuedNoWrite
    /\ [][RejectionLeavesStore]_vars

\* a duplicate has been answered 409, having issued its SELECT, while the
\* rows of the first upload are durable
C31_Witness ==
    \E h \in Requests :
        /\ req[h].status = 409
        /\ req[h].issued = <<"SELECT">>
        /\ ReportsWithId(committed, req[h].reportId) # {}
        /\ EntriesWithId(committed, req[h].reportId) # {}
=============================================================================
